---- MODULE Spec2Model ----
(***************************************************************************)
(* Model of the rustboy audio worklet processors.                          *)
(*                                                                         *)
(*   WhiteNoiseProcessor, packed-integer revision  (src/unnamed/part_000)  *)
(*   WhiteNoiseProcessor, boolean-array revision   (src/unnamed/part_001)  *)
(*   WaveformProcessor             (src/static/waveform-processor.js)      *)
(*                                                                         *)
(* Numbers.  trigger, gain and width are k-rate parameters in [0,1]; they  *)
(* are modelled in tenths (0.5 is 5, 1 is 10).  A noise sample is          *)
(* (+1 or -1) * gain, kept in tenths.  A wavetable sample is               *)
(* (1 - 2*nibble/15) * gain, kept as (15 - 2*nibble) * gain, that is, in   *)
(* units of 1/150.  Registers are naturals; JavaScript's bit operators are *)
(* modelled bit by bit.  JavaScript arrays are sequences, so index k of    *)
(* the code is index k+1 here.                                             *)
(***************************************************************************)
EXTENDS Integers, Sequences, FiniteSets, TLC

(***************************************************************************)
(* Bounds of the model.                                                    *)
(***************************************************************************)
\* sampleRate global of the AudioWorkletGlobalScope (frames per second)
SampleRate == 64
\* channel.length: frames per render quantum (128 in a browser)
BlockFrames == 5
\* largest number of channels of outputs[0]
MaxChannels == 2
\* number of process() calls in one behaviour
MaxBlocks == 2
\* number of doTick calls in one behaviour of the free-running register
MaxTicks == 16
\* number of messages posted to the processor's port in one behaviour
MaxMessages == 2

\* parameter values a block snapshot is drawn from (tenths)
Triggers == {0, 5, 10}
Gains == {0, 5, 10}
Widths == {0, 5, 10}
\* frequency values (Hz) a noise block snapshot is drawn from
Frequencies == {24, 128}
\* frequency values (Hz) a wavetable block snapshot is drawn from
WaveFrequencies == {1, 64}
\* values of the data0..data7 parameters: 0, 0xFFFF, 0x5678, 0x12345678
WaveWords == {0, 65535, 22136, 305419896}

(***************************************************************************)
(* JavaScript integer operators on naturals below 2^31.                    *)
(***************************************************************************)
RECURSIVE BitAnd(_, _)
BitAnd(a, b) ==
    IF a = 0 \/ b = 0 THEN 0
    ELSE (a % 2) * (b % 2) + 2 * BitAnd(a \div 2, b \div 2)

RECURSIVE BitOr(_, _)
BitOr(a, b) ==
    IF a = 0 THEN b
    ELSE IF b = 0 THEN a
    ELSE (IF a % 2 = 1 \/ b % 2 = 1 THEN 1 ELSE 0) + 2 * BitOr(a \div 2, b \div 2)

\* a & ~m for naturals a, m: ~m has every bit set that m has clear
RECURSIVE BitAndNot(_, _)
BitAndNot(a, m) ==
    IF a = 0 THEN 0
    ELSE (a % 2) * (1 - (m % 2)) + 2 * BitAndNot(a \div 2, m \div 2)

\* a >> n for a natural a
Shr(a, n) == a \div (2 ^ n)

\* a << n
Shl(a, n) == a * (2 ^ n)

\* true is 1 and false is 0 when a boolean is shifted
ToInt(b) == IF b THEN 1 ELSE 0

\* bit k of a natural (used by the properties, not by the code)
BitAt(a, k) == (a \div (2 ^ k)) % 2

(***************************************************************************)
(* WhiteNoiseProcessor.doTick and the sample value, packed revision.        *)
(***************************************************************************)
\* the bit doTick writes the feedback to: newBitValue << 15
HighBitP == 15
\* the bit doTick also writes in short mode: newBitValue << 7
TapBitP == 7

MutMaskP(newBitValue, short) ==
    BitOr(Shl(ToInt(newBitValue), HighBitP - 1),
          IF short THEN Shl(ToInt(newBitValue), TapBitP) ELSE 0)
MaskP(newBitValue, short) ==
    BitOr(Shl(ToInt(newBitValue), HighBitP),
          IF short THEN Shl(ToInt(newBitValue), TapBitP) ELSE 0)

\* bit1 of the packed register: (this.lfsr >> 1) & 0x1
MutBit1P(lfsr) == BitAnd(Shr(lfsr, 3), 1) = 1
Bit1P(lfsr) == BitAnd(Shr(lfsr, 1), 1) = 1

doTickP(lfsr, short) ==
    LET bit0 == BitAnd(lfsr, 1) = 1
        bit1 == Bit1P(lfsr)
        newBitValue == ~(bit0 # bit1)
        mask == MaskP(newBitValue, short)
        shifted == Shr(lfsr, 1)
    IN  BitOr(BitAndNot(shifted, mask), mask)

\* process: const value = (this.lfsr % 2) === 1 ? -1 : 1
MutValueP(lfsr) == IF lfsr % 2 = 1 THEN 1 ELSE -1
ValueP(lfsr) == IF lfsr % 2 = 1 THEN -1 ELSE 1

(***************************************************************************)
(* WhiteNoiseProcessor.doTick, boolean-array revision.                     *)
(***************************************************************************)
\* Array(15): length of the register array
RegLen == 15
\* this.lfsr[6]: the entry doTick also writes in short mode
TapIdxA == 6

\* [...Array(15).fill(false)]
ZeroArr == [k \in 1..RegLen |-> FALSE]

FeedbackA(lfsr) == lfsr[1] = lfsr[2]

doTickA(lfsr, short) ==
    LET newBitValue == FeedbackA(lfsr)
        pushed == Append(Tail(lfsr), newBitValue)
    IN  IF short THEN [pushed EXCEPT ![TapIdxA + 1] = newBitValue] ELSE pushed

\* process: const value = this.lfsr[0] ? -1 : 1
ValueA(lfsr) == IF lfsr[1] THEN -1 ELSE 1

VARIABLES
    rev,                    \* revisions of white-noise-processor.js instantiated
    lfsrP,                  \* packed revision: this.lfsr
    currentSampleP,         \* packed revision: this.currentSample
    lfsrA,                  \* array revision: this.lfsr
    currentSampleA,         \* array revision: this.currentSample
    obs,                    \* the last doTick call: its flag, the registers it found
    nticks,                 \* doTick calls so far
    sinceInit,              \* doTick calls since the register was last as constructed
    period,                 \* doTick calls the first return to that value took (0: none yet)
    hist,                   \* the latest per-tick outputs, oldest first
    alive,                  \* the periods p the per-tick outputs have not contradicted
    twin,                   \* a second processor of the same kind, given one call of
                            \* twice the channel length: its snapshot, fields and output
    pulse,                  \* PulseGenerator: sampleRate, its counter c, and where its
                            \* render call is (pc, par, i, out, blocks)
    pobs,                   \* PulseGenerator: the counter each frame was emitted at,
                            \* and the frames between the frames emitted at 0
    app,                    \* the App component: its emulator state, the freed
                            \* emulators, the pending animation-frame callbacks with
                            \* the emulator each closure holds, animationFrameId.current,
                            \* and where the ROM-selection handler is
    ui,                     \* TabPane and ButtonBar: activeTab, the pending timeouts,
                            \* and the emulator's rendering and pause flags
    pc,                     \* where process() is: "idle", "loop" or "done"
    par,                    \* process(): the parameters and outputs[0] of this call
    ch,                     \* process(): the channel forEach is at (from 1)
    i,                      \* process(): the loop variable i
    out,                    \* outputs[0] of each processor: channel -> frame -> sample
    last,                   \* the <<channel, frame>> written last in this call
    blocks,                 \* process() calls so far
    ret,                    \* <<v>> when the last process() call returned v; <<>> before
                            \* the first call and while one runs
    cad,                    \* per revision: frames since the last tick, and the gap
                            \* between the last two ticks
    data,                   \* WaveformProcessor: this.data
    currentSampleW,         \* WaveformProcessor: this.currentSample
    currentWaveformSample,  \* WaveformProcessor: this.currentWaveformSample
    port,                   \* messages posted to the processor's port, not yet delivered
    posted,                 \* messages posted so far
    delivered,              \* messages delivered so far
    unp,                    \* a getSample call on its own: its index and its result
    cadW,                   \* WaveformProcessor: frames since the step index last
                            \* changed, the gap between its last two changes, and
                            \* the step index before the frame written last
    sent,                   \* the payload posted last (<<>>: none yet)
    dup                     \* deliveries whose payload was the table they replaced

noiseVars == <<rev, lfsrP, currentSampleP, lfsrA, currentSampleA>>
tickVars == <<obs, nticks, sinceInit, period, hist, alive, twin, pulse, pobs, app, ui>>
blockVars == <<pc, par, ch, i, out, last, blocks, cad, ret>>
waveVars == <<data, currentSampleW, currentWaveformSample, port, posted, delivered, unp,
              cadW, sent, dup>>
vars == <<rev, lfsrP, currentSampleP, lfsrA, currentSampleA,
          obs, nticks, sinceInit, period, hist, alive, twin, pulse, pobs, app, ui,
          pc, par, ch, i, out, last, blocks, cad, ret,
          data, currentSampleW, currentWaveformSample, port, posted, delivered, unp,
          cadW, sent, dup>>

Revs == {"packed", "array"}

\* the record of a doTick call: whether one happened, its flag, and the
\* registers it found
NoObs == [ticked |-> FALSE, short |-> FALSE, preP |-> 0, preA |-> ZeroArr]

\* constructor(): this.lfsr = 0 / Array(15).fill(false); this.currentSample = 0
NoiseInit ==
    /\ lfsrP = 0
    /\ currentSampleP = 0
    /\ lfsrA = ZeroArr
    /\ currentSampleA = 0

\* no second processor
NoTwin == <<>>

\* App as mounted by revision v of the component: useState() leaves emulator
\* undefined (0) and paused false, useRef() leaves animationFrameId.current
\* undefined (0); no emulator exists, no callback is pending, no handler runs
AppInit(v) ==
    app = [variant |-> v, emulator |-> 0, rendered |-> 0, paused |-> FALSE,
           animationFrameId |-> 0, frames |-> {}, nextId |-> 1,
           created |-> 0, freed |-> {}, handler |-> "idle", held |-> 0,
           roms |-> 0, runs |-> 0, ran |-> <<>>]

\* TabPane and ButtonBar as mounted, with the emulator they are given:
\* useState<Tab>() leaves activeTab undefined and no timeout is pending; the
\* emulator starts with both atlas renderings off and not paused; toggled
\* remembers what is_paused() returned just before the last click on Pause
UiInit ==
    ui = [activeTab |-> "undefined", timeouts |-> <<>>, tile |-> FALSE, object |-> FALSE,
          paused |-> FALSE, clicks |-> 0, toggled |-> <<>>]

\* PulseGenerator: no render call is running
NoPulsePar == [trigger |-> 0, gain |-> 0, frequency |-> 1, dutyCycle |-> 0]
NoPobs == [at |-> 0, written |-> FALSE, before |-> 0, after |-> 0,
           since |-> 0, steady |-> <<>>, gap |-> 0,
           low |-> 0, high |-> 0, lowDone |-> 0, highDone |-> 0,
           idle |-> 0, resumed |-> 0]

\* PulseGenerator as constructed, at sample rate r and rendering calls of n
\* frames: c = 0
PulseInit(r, n) ==
    /\ pulse = [sampleRate |-> r, frames |-> n, c |-> 0, pc |-> "idle", par |-> NoPulsePar, i |-> 0,
                out |-> <<>>, blocks |-> 0]
    /\ pobs = NoPobs

TickObsInit ==
    /\ obs = NoObs
    /\ nticks = 0
    /\ sinceInit = 0
    /\ period = 0
    /\ hist = <<>>
    /\ alive = {}
    /\ twin = NoTwin
    /\ PulseInit(SampleRate, BlockFrames)
    /\ AppInit("app.tsx")
    /\ UiInit

\* WaveformProcessor constructor: [...Array(16).fill(-1), ...Array(16).fill(1)]
InitData == [k \in 1..32 |-> IF k <= 16 THEN -1 ELSE 1]

NoUnp == [done |-> FALSE, index |-> 0, nibble |-> 0, sample |-> 0]
NoCadW == [since |-> 0, steady |-> 0, gap |-> 0, prev |-> 0]
NoSent == <<>>

\* WaveformProcessor constructor, with nothing posted to its port yet
MutWaveInit ==
    /\ data = InitData
    /\ currentSampleW = 0
    /\ currentWaveformSample = 32
    /\ port = <<>>
    /\ posted = 0
    /\ delivered = 0
    /\ unp = NoUnp
    /\ cadW = NoCadW
    /\ sent = NoSent
    /\ dup = 0
WaveInit ==
    /\ data = InitData
    /\ currentSampleW = 0
    /\ currentWaveformSample = 0
    /\ port = <<>>
    /\ posted = 0
    /\ delivered = 0
    /\ unp = NoUnp
    /\ cadW = NoCadW
    /\ sent = NoSent
    /\ dup = 0

\* no process() call is running
NoPar == [trigger |-> 0, gain |-> 0, frequency |-> 1, width |-> 0, chans |-> 0]
NoOut == <<>>
NoLast == <<0, 0>>
NoRet == <<>>
NoCad == [r \in Revs |-> [since |-> 0, steady |-> 0, gap |-> 0]]

BlockInit ==
    /\ pc = "idle"
    /\ par = NoPar
    /\ ch = 0
    /\ i = 0
    /\ out = NoOut
    /\ last = NoLast
    /\ blocks = 0
    /\ cad = NoCad
    /\ ret = NoRet

\* one doTick(short) call on every instantiated revision
Tick(short) ==
    /\ lfsrP' = IF "packed" \in rev THEN doTickP(lfsrP, short) ELSE lfsrP
    /\ lfsrA' = IF "array" \in rev THEN doTickA(lfsrA, short) ELSE lfsrA
    /\ obs' = [ticked |-> TRUE, short |-> short, preP |-> lfsrP, preA |-> lfsrA]
    /\ UNCHANGED <<rev, currentSampleP, currentSampleA>>

(***************************************************************************)
(* SpecLfsr: both revisions constructed, then driven by the same sequence  *)
(* of doTick calls, each with the same flag for both.                      *)
(***************************************************************************)
LfsrInit ==
    /\ rev = Revs
    /\ NoiseInit
    /\ TickObsInit
    /\ BlockInit
    /\ WaveInit

LfsrTick ==
    /\ nticks < MaxTicks
    /\ \E short \in BOOLEAN : Tick(short)
    /\ nticks' = nticks + 1
    /\ UNCHANGED <<sinceInit, period, hist, alive, twin, pulse, pobs, app, ui>>
    /\ UNCHANGED blockVars
    /\ UNCHANGED waveVars

LfsrNext == LfsrTick

SpecLfsr == LfsrInit /\ [][LfsrNext]_vars

(***************************************************************************)
(* SpecTick: doTick as a function of the register.  The packed register is *)
(* drawn from every value doTick can leave behind (bits 0..HighBitP), the  *)
(* array register holds the same low RegLen bits; one doTick call follows. *)
(***************************************************************************)
ArrOf(r) == [k \in 1..RegLen |-> BitAt(r, k - 1) = 1]

TickInit ==
    /\ rev = Revs
    /\ \E r \in 0..(2 ^ (HighBitP + 1) - 1) :
          /\ lfsrP = r
          /\ lfsrA = ArrOf(r)
    /\ currentSampleP = 0
    /\ currentSampleA = 0
    /\ TickObsInit
    /\ BlockInit
    /\ WaveInit

TickOnce ==
    /\ nticks = 0
    /\ \E short \in BOOLEAN : Tick(short)
    /\ nticks' = 1
    /\ UNCHANGED <<sinceInit, period, hist, alive, twin, pulse, pobs, app, ui>>
    /\ UNCHANGED blockVars
    /\ UNCHANGED waveVars

TickNext == TickOnce

SpecTick == TickInit /\ [][TickNext]_vars

(***************************************************************************)
(* SpecLong and SpecShort: one revision constructed, then ticked for ever  *)
(* in one mode.  The output of a tick is the value process() writes for    *)
(* the register that tick leaves.                                          *)
(***************************************************************************)
\* the periods the claims allow
LongPeriodMax == 2 ^ 15 - 1
ShortPeriodMax == 2 ^ 7 - 1

OneRevInit ==
    /\ rev \in {{"packed"}, {"array"}}
    /\ NoiseInit
    /\ obs = NoObs
    /\ nticks = 0
    /\ sinceInit = 0
    /\ period = 0
    /\ hist = <<>>
    /\ twin = NoTwin
    /\ PulseInit(SampleRate, BlockFrames)
    /\ AppInit("app.tsx")
    /\ UiInit
    /\ BlockInit
    /\ WaveInit

\* the sample value of the instantiated revision
TickOutput(p, a) == IF "packed" \in rev THEN ValueP(p) ELSE ValueA(a)

LongInit ==
    /\ OneRevInit
    /\ alive = {}

LongTick ==
    /\ Tick(FALSE)
    /\ LET back == lfsrP' = 0 /\ lfsrA' = ZeroArr
       IN  /\ sinceInit' = IF back THEN 0 ELSE sinceInit + 1
           /\ period' = IF back /\ period = 0 THEN sinceInit + 1 ELSE period
    /\ UNCHANGED <<nticks, hist, alive, twin, pulse, pobs, app, ui>>
    /\ UNCHANGED blockVars
    /\ UNCHANGED waveVars

LongNext == LongTick

SpecLong == LongInit /\ [][LongNext]_vars

ShortInit ==
    /\ OneRevInit
    /\ alive = 1..ShortPeriodMax

\* p stays a candidate period while the output p ticks ago equals this one
ShortTick ==
    /\ Tick(TRUE)
    /\ LET o == TickOutput(lfsrP', lfsrA')
           n == Len(hist)
           all == Append(hist, o)
       IN  /\ alive' = {p \in alive : n >= p => hist[n - p + 1] = o}
           /\ hist' = IF n < ShortPeriodMax THEN all ELSE Tail(all)
    /\ UNCHANGED <<nticks, sinceInit, period, twin, pulse, pobs, app, ui>>
    /\ UNCHANGED blockVars
    /\ UNCHANGED waveVars

ShortNext == ShortTick

SpecShort == ShortInit /\ [][ShortNext]_vars

(***************************************************************************)
(* WhiteNoiseProcessor.process, both revisions.  A call is three kinds of  *)
(* step: the entry (the parameter snapshot and the enabled test; a         *)
(* disabled call does all it does here), one iteration of the frame loop,  *)
(* and the return.  Nothing else runs on the audio thread between them.    *)
(***************************************************************************)
\* parameters.trigger[0] > 0.5
Half == 5
MutEnabled(p) == p.trigger >= Half
MutEnabledLow(p) == p.trigger > 0
Enabled(p) == p.trigger > Half

\* packed: const short = parameters.width[0] < 0.5
MutShortP(p) == p.width <= Half
ShortP(p) == p.width < Half
\* array: const short = parameters.width[0] > 0.5
ShortA(p) == p.width > Half

\* Math.floor(sampleRate / parameters.frequency[0])
SamplesPerTick(p) == SampleRate \div p.frequency

\* if (this.currentSample > samplesPerTick)
MutTickDueP(currentSample, p) == currentSample >= SamplesPerTick(p)
MutTickDueEqP(currentSample, p) == currentSample = SamplesPerTick(p) + 1
TickDueP(currentSample, p) == currentSample > SamplesPerTick(p)
TickDueA(currentSample, p) == currentSample > SamplesPerTick(p)

\* for (let i = 0; i < channel.length; i++): the test after i++
MutLoopOn(i1, frames) == i1 <= frames
LoopOn(i1, frames) == i1 < frames

\* where the frame loop goes after an iteration: the next frame of the
\* channel, frame 0 of the next channel forEach visits, or out of the loop
LoopAdvance(frames) ==
    IF LoopOn(i + 1, frames)
    THEN /\ i' = i + 1
         /\ UNCHANGED <<ch, pc>>
    ELSE IF ch < par.chans
    THEN /\ i' = 0
         /\ ch' = ch + 1
         /\ UNCHANGED pc
    ELSE /\ pc' = "done"
         /\ UNCHANGED <<ch, i>>

\* one iteration of the frame loop, packed revision
FrameP(currentSample, lfsr, p) ==
    LET due == TickDueP(currentSample, p)
        lfsr1 == IF due THEN doTickP(lfsr, ShortP(p)) ELSE lfsr
    IN  [currentSample |-> (IF due THEN 0 ELSE currentSample) + 1,
         lfsr |-> lfsr1,
         sample |-> ValueP(lfsr1) * p.gain,
         ticked |-> due]

\* one iteration of the frame loop, array revision
FrameA(currentSample, lfsr, p) ==
    LET due == TickDueA(currentSample, p)
        lfsr1 == IF due THEN doTickA(lfsr, ShortA(p)) ELSE lfsr
    IN  [currentSample |-> (IF due THEN 0 ELSE currentSample) + 1,
         lfsr |-> lfsr1,
         sample |-> ValueA(lfsr1) * p.gain,
         ticked |-> due]

\* outputs[0] as the host hands it over: chans channels of zeroed frames
ZeroBuf(chans) == [c \in 1..chans |-> [k \in 1..BlockFrames |-> 0]]

\* the cadence record after a frame: a tick closes a gap, which counts when
\* every frame since the tick before it was rendered at this frequency
CadAfter(c, ticked, p) ==
    IF ticked
    THEN [since |-> 0, steady |-> p.frequency,
          gap |-> IF c.steady = p.frequency THEN c.since + 1 ELSE 0]
    ELSE [since |-> c.since + 1, steady |-> c.steady, gap |-> 0]

\* the cadence record when a call begins: a disabled call or another
\* frequency ends the run of frames at one frequency
CadBegin(c, p) ==
    [since |-> c.since,
     steady |-> IF Enabled(p) /\ p.frequency = c.steady THEN c.steady ELSE 0,
     gap |-> 0]

\* array revision, else branch: this.lfsr = [...Array(15).fill(false)]
MutOnDisableA(lfsr) == lfsr
OnDisableA(lfsr) == ZeroArr

NoiseCall(maxBlocks) ==
    /\ pc = "idle"
    /\ blocks < maxBlocks
    /\ \E trigger \in Triggers, gain \in Gains, frequency \in Frequencies,
          width \in Widths, chans \in 1..MaxChannels :
          LET p == [trigger |-> trigger, gain |-> gain, frequency |-> frequency,
                    width |-> width, chans |-> chans]
          IN  /\ par' = p
              /\ out' = [r \in rev |-> ZeroBuf(chans)]
              /\ cad' = [r \in Revs |-> CadBegin(cad[r], p)]
              /\ IF Enabled(p)
                 THEN /\ pc' = "loop"
                      /\ ch' = 1
                      /\ i' = 0
                      /\ lfsrA' = lfsrA
                 ELSE /\ pc' = "done"
                      /\ ch' = 0
                      /\ i' = 0
                      /\ lfsrA' = IF "array" \in rev THEN OnDisableA(lfsrA) ELSE lfsrA
    /\ blocks' = blocks + 1
    /\ last' = NoLast
    /\ ret' = NoRet
    /\ UNCHANGED <<rev, lfsrP, currentSampleP, currentSampleA>>
    /\ UNCHANGED tickVars
    /\ UNCHANGED waveVars

NoiseBegin == NoiseCall(MaxBlocks)

NoiseFrame ==
    /\ pc = "loop"
    /\ LET fp == FrameP(currentSampleP, lfsrP, par)
           fa == FrameA(currentSampleA, lfsrA, par)
       IN  /\ currentSampleP' = IF "packed" \in rev THEN fp.currentSample ELSE currentSampleP
           /\ lfsrP' = IF "packed" \in rev THEN fp.lfsr ELSE lfsrP
           /\ currentSampleA' = IF "array" \in rev THEN fa.currentSample ELSE currentSampleA
           /\ lfsrA' = IF "array" \in rev THEN fa.lfsr ELSE lfsrA
           /\ out' = [r \in rev |->
                        [out[r] EXCEPT ![ch][i + 1] =
                            IF r = "packed" THEN fp.sample ELSE fa.sample]]
           /\ cad' = [r \in Revs |->
                        IF r \notin rev THEN cad[r]
                        ELSE CadAfter(cad[r],
                                      IF r = "packed" THEN fp.ticked ELSE fa.ticked,
                                      par)]
    /\ last' = <<ch, i + 1>>
    /\ LoopAdvance(BlockFrames)
    /\ UNCHANGED <<rev, par, blocks, ret>>
    /\ UNCHANGED tickVars
    /\ UNCHANGED waveVars

\* return true
ReturnValue == TRUE

\* return true; the host takes the buffer
NoiseReturn ==
    /\ pc = "done"
    /\ pc' = "idle"
    /\ par' = NoPar
    /\ ch' = 0
    /\ i' = 0
    /\ out' = NoOut
    /\ last' = NoLast
    /\ ret' = <<ReturnValue>>
    /\ cad' = [r \in Revs |-> [cad[r] EXCEPT !.gap = 0]]
    /\ UNCHANGED blocks
    /\ UNCHANGED noiseVars
    /\ UNCHANGED tickVars
    /\ UNCHANGED waveVars

NoiseRenderInit ==
    /\ rev = Revs
    /\ NoiseInit
    /\ TickObsInit
    /\ BlockInit
    /\ WaveInit

NoiseNext == NoiseBegin \/ NoiseFrame \/ NoiseReturn

SpecNoise == NoiseRenderInit /\ [][NoiseNext]_vars

(***************************************************************************)
(* WaveformProcessor.getSample.  parameters is the words data0..data7 of   *)
(* the call's snapshot (a function on 0..7).  The nibble it decodes is     *)
(* kept apart from the amplitude it returns.                               *)
(***************************************************************************)
\* let nibbleShift = (index % 2 === 0) ? 4 : 0
MutNibbleShift(index) == IF index % 2 = 0 THEN 0 ELSE 4
NibbleShift(index) == IF index % 2 = 0 THEN 4 ELSE 0

\* getSample up to value &= 0xF
MutGetNibble(words, index) ==
    LET parameterOffset == index \div 4
        valueOffset == (index % 4) \div 2
        nibbleShift == NibbleShift(index)
        value0 == words[parameterOffset]
        value1 == Shr(value0, valueOffset * 16)
        value2 == BitAnd(value1, 255)
        value3 == Shr(value2, nibbleShift)
    IN  BitAnd(value3, 15)
GetNibble(words, index) ==
    LET parameterOffset == index \div 4
        valueOffset == (index % 4) \div 2
        nibbleShift == NibbleShift(index)
        value0 == words[parameterOffset]
        value1 == Shr(value0, valueOffset * 8)
        value2 == BitAnd(value1, 255)
        value3 == Shr(value2, nibbleShift)
    IN  BitAnd(value3, 15)

\* return 1 - 2 * (value / 15), in fifteenths
MutGetSample(words, index) == 15 - GetNibble(words, index)
MutGetSampleOver(words, index) == 16 - 2 * GetNibble(words, index)
GetSample(words, index) == 15 - 2 * GetNibble(words, index)

(***************************************************************************)
(* WaveformProcessor: the port and process.                                *)
(***************************************************************************)
\* payloads of a "replace wavetable" message: 32 nibbles
Tables == {[k \in 1..32 |-> 0], [k \in 1..32 |-> 15]}

\* parameter snapshots: the eight data words
WordTuples == {[k \in 0..7 |-> w] : w \in WaveWords}

\* the control thread posts one of up to n messages; it may do so while
\* process() runs
PostUpTo(n) ==
    /\ posted < n
    /\ \E t \in Tables :
          /\ port' = Append(port, t)
          /\ sent' = t
    /\ posted' = posted + 1
    /\ UNCHANGED <<data, currentSampleW, currentWaveformSample, delivered, unp, cadW, dup>>
    /\ UNCHANGED noiseVars
    /\ UNCHANGED tickVars
    /\ UNCHANGED blockVars

Post == PostUpTo(MaxMessages)

\* the handler is a task of the audio thread, as process() is: it runs
\* between two process() calls, never inside one
MutDeliverable(at) == at \in {"idle", "loop"}
Deliverable(at) == at = "idle"

\* this.port.onmessage = (event) => { this.data = event.data }
MutOnMessageSwap(old, payload) == IF old = payload THEN InitData ELSE payload
MutOnMessageFirst(old, payload) == IF old = InitData THEN payload ELSE old
OnMessage(old, payload) == payload

Deliver ==
    /\ Deliverable(pc)
    /\ port # <<>>
    /\ data' = OnMessage(data, Head(port))
    /\ port' = Tail(port)
    /\ delivered' = delivered + 1
    /\ dup' = IF Head(port) = data THEN dup + 1 ELSE dup
    /\ UNCHANGED <<currentSampleW, currentWaveformSample, posted, unp, cadW, sent>>
    /\ UNCHANGED noiseVars
    /\ UNCHANGED tickVars
    /\ UNCHANGED blockVars

\* Math.floor(Math.floor(sampleRate / frequency) / 32)
SamplesPerWaveformSample(p) == (SampleRate \div p.frequency) \div 32

\* if (this.currentSample > samplesPerWaveformSample)
MutStepDue(currentSample, p) == currentSample >= SamplesPerWaveformSample(p)
StepDue(currentSample, p) == currentSample > SamplesPerWaveformSample(p)

\* this.currentWaveformSample = (this.currentWaveformSample + 1) % 32
NextStep(step) == (step + 1) % 32

\* one iteration of the frame loop
FrameW(currentSample, step, p) ==
    LET due == StepDue(currentSample, p)
        step1 == IF due THEN NextStep(step) ELSE step
    IN  [currentSample |-> (IF due THEN 0 ELSE currentSample) + 1,
         step |-> step1,
         sample |-> GetSample(p.words, step1) * p.gain]

\* outputs[0] as the host hands it over: chans channels of frames zeroed frames
ZeroFrames(chans, frames) == [c \in 1..chans |-> [k \in 1..frames |-> 0]]

\* process() has no else branch: a disabled call leaves the step index
MutOnDisableW(step) == 0
OnDisableW(step) == step

\* process() is entered with a snapshot drawn from the given sets and an
\* outputs[0] of the given channel length
WaveCall(maxBlocks, gains, tuples, frames) ==
    /\ pc = "idle"
    /\ blocks < maxBlocks
    /\ \E trigger \in Triggers, gain \in gains, frequency \in WaveFrequencies,
          words \in tuples, chans \in 1..MaxChannels :
          LET p == [trigger |-> trigger, gain |-> gain, frequency |-> frequency,
                    words |-> words, chans |-> chans, frames |-> frames]
          IN  /\ par' = p
              /\ out' = [g \in {"wave"} |-> ZeroFrames(chans, frames)]
              /\ cadW' = [prev |-> currentWaveformSample] @@ CadBegin(cadW, p)
              /\ IF Enabled(p)
                 THEN /\ pc' = "loop"
                      /\ ch' = 1
                      /\ currentWaveformSample' = currentWaveformSample
                 ELSE /\ pc' = "done"
                      /\ ch' = 0
                      /\ currentWaveformSample' = OnDisableW(currentWaveformSample)
    /\ i' = 0
    /\ blocks' = blocks + 1
    /\ last' = NoLast
    /\ ret' = NoRet
    /\ UNCHANGED cad
    /\ UNCHANGED <<data, currentSampleW, port, posted, delivered, unp, sent, dup>>
    /\ UNCHANGED noiseVars
    /\ UNCHANGED tickVars

WaveEnter(gains, tuples, frames) == WaveCall(MaxBlocks, gains, tuples, frames)

\* gain values a call's snapshot is drawn from where messages are posted
\* between and during the calls (tenths)
PortGains == {5, 10}

WaveBegin == WaveEnter(PortGains, WordTuples, BlockFrames)

WaveFrame ==
    /\ pc = "loop"
    /\ LET f == FrameW(currentSampleW, currentWaveformSample, par)
       IN  /\ currentSampleW' = f.currentSample
           /\ currentWaveformSample' = f.step
           /\ out' = [out EXCEPT !["wave"][ch][i + 1] = f.sample]
           /\ cadW' = [prev |-> currentWaveformSample] @@
                      CadAfter(cadW, f.step # currentWaveformSample, par)
    /\ last' = <<ch, i + 1>>
    /\ LoopAdvance(par.frames)
    /\ UNCHANGED <<par, blocks, cad, ret>>
    /\ UNCHANGED <<data, port, posted, delivered, unp, sent, dup>>
    /\ UNCHANGED noiseVars
    /\ UNCHANGED tickVars

\* return true; the host takes the buffer
MutWaveReturn ==
    /\ pc = "done"
    /\ pc' = "idle"
    /\ par' = NoPar
    /\ ch' = 0
    /\ i' = 0
    /\ out' = NoOut
    /\ last' = NoLast
    /\ ret' = <<ReturnValue>>
    /\ cadW' = [cadW EXCEPT !.gap = 0]
    /\ currentSampleW' = 0
    /\ UNCHANGED <<blocks, cad>>
    /\ UNCHANGED <<data, currentWaveformSample, port, posted, delivered,
                   unp, sent, dup>>
    /\ UNCHANGED noiseVars
    /\ UNCHANGED tickVars
WaveReturn ==
    /\ pc = "done"
    /\ pc' = "idle"
    /\ par' = NoPar
    /\ ch' = 0
    /\ i' = 0
    /\ out' = NoOut
    /\ last' = NoLast
    /\ ret' = <<ReturnValue>>
    /\ cadW' = [cadW EXCEPT !.gap = 0]
    /\ UNCHANGED <<blocks, cad>>
    /\ UNCHANGED <<data, currentSampleW, currentWaveformSample, port, posted, delivered,
                   unp, sent, dup>>
    /\ UNCHANGED noiseVars
    /\ UNCHANGED tickVars

WaveRenderInit ==
    /\ rev = {}
    /\ NoiseInit
    /\ TickObsInit
    /\ BlockInit
    /\ WaveInit

WaveNext == Post \/ Deliver \/ WaveBegin \/ WaveFrame \/ WaveReturn

SpecWave == WaveRenderInit /\ [][WaveNext]_vars

(***************************************************************************)
(* SpecWaveRun: the same processor over calls long enough for the step     *)
(* index to go round the table, with fewer messages in one behaviour.      *)
(***************************************************************************)
\* channel.length of the long calls
WaveFrames == 9
\* number of messages posted in one behaviour of the long calls
RunMessages == 1

\* its data words: 0, 0xFFFF, 0x5678, 0x12340000
RunWords == {0, 65535, 22136, 305397760}
RunWordTuples == {[k \in 0..7 |-> w] : w \in RunWords}

PostRun == PostUpTo(RunMessages)

WaveBeginRun == WaveEnter(Gains, RunWordTuples, WaveFrames)

WaveRunNext == PostRun \/ Deliver \/ WaveBeginRun \/ WaveFrame \/ WaveReturn

SpecWaveRun == WaveRenderInit /\ [][WaveRunNext]_vars

(***************************************************************************)
(* SpecGens: one generator is instantiated, the noise generator in both    *)
(* revisions or the wavetable generator, and rendered call after call.     *)
(***************************************************************************)
GensInit == NoiseRenderInit \/ WaveRenderInit

GensNext ==
    \/ rev # {} /\ NoiseNext
    \/ rev = {} /\ WaveRunNext

SpecGens == GensInit /\ [][GensNext]_vars

\* a call, once entered, runs to its return: nothing else is scheduled on
\* the audio thread before it
\* the frame loop of the entered call goes on
GensLoop ==
    /\ pc = "loop"
    /\ LoopAdvance(IF rev = {} THEN par.frames ELSE BlockFrames)

GensReturn ==
    \/ rev # {} /\ NoiseReturn
    \/ rev = {} /\ WaveReturn

\* SpecCalls: the calls of SpecGens at one gain and, for the wavetable
\* generator, one table; a call, once entered, runs to its return, for
\* nothing else is scheduled on the audio thread before it
CallGains == {10}
CallWordTuples == {[k \in 0..7 |-> 22136]}

CallBegin ==
    \/ rev # {} /\ NoiseBegin /\ par'.gain \in CallGains
    \/ rev = {} /\ WaveBeginRun /\ par'.gain \in CallGains
                /\ par'.words \in CallWordTuples

CallNext ==
    \/ CallBegin
    \/ rev # {} /\ (NoiseFrame \/ NoiseReturn)
    \/ rev = {} /\ (PostRun \/ Deliver \/ WaveFrame \/ WaveReturn)

SpecCalls ==
    GensInit /\ [][CallNext]_vars /\ WF_<<pc, ch, i>>(GensLoop) /\ WF_vars(GensReturn)

(***************************************************************************)
(* SpecSplit: two processors of one kind are constructed and given the     *)
(* same enabled snapshot over a single channel.  The second gets one call  *)
(* of twice the channel length; then the first gets two calls of the       *)
(* channel length.                                                         *)
(***************************************************************************)
\* channel.length of each of the two calls
SplitFrames == IF rev = {} THEN WaveFrames ELSE BlockFrames

\* the enabled single-channel snapshots of the instantiated kind
SplitPars ==
    IF rev = {}
    THEN {[trigger |-> t, gain |-> g, frequency |-> f, words |-> w, chans |-> 1,
           frames |-> WaveFrames] :
             t \in {x \in Triggers : x > Half}, g \in Gains,
             f \in WaveFrequencies, w \in RunWordTuples}
    ELSE {[trigger |-> t, gain |-> g, frequency |-> f, width |-> w, chans |-> 1] :
             t \in {x \in Triggers : x > Half}, g \in Gains,
             f \in Frequencies, w \in Widths}

\* the second processor as constructed, about to render snapshot p
TwinInit(p) ==
    [par |-> p, lfsrP |-> 0, currentSampleP |-> 0, lfsrA |-> ZeroArr,
     currentSampleA |-> 0, currentSampleW |-> 0, currentWaveformSample |-> 0,
     outP |-> <<>>, outA |-> <<>>, outW |-> <<>>, n |-> 0]

SplitInit ==
    /\ rev \in {Revs, {}}
    /\ NoiseInit
    /\ obs = NoObs
    /\ nticks = 0
    /\ sinceInit = 0
    /\ period = 0
    /\ hist = <<>>
    /\ alive = {}
    /\ \E p \in SplitPars : twin = TwinInit(p)
    /\ PulseInit(SampleRate, BlockFrames)
    /\ AppInit("app.tsx")
    /\ UiInit
    /\ BlockInit
    /\ WaveInit

\* one iteration of the frame loop of the second processor's long call
TwinFrame ==
    /\ twin.n < 2 * SplitFrames
    /\ LET fp == FrameP(twin.currentSampleP, twin.lfsrP, twin.par)
           fa == FrameA(twin.currentSampleA, twin.lfsrA, twin.par)
       IN  twin' =
             IF rev = {}
             THEN LET fw == FrameW(twin.currentSampleW, twin.currentWaveformSample,
                                   twin.par)
                  IN  [twin EXCEPT !.currentSampleW = fw.currentSample,
                                   !.currentWaveformSample = fw.step,
                                   !.outW = Append(@, fw.sample),
                                   !.n = @ + 1]
             ELSE [twin EXCEPT !.currentSampleP = fp.currentSample,
                               !.lfsrP = fp.lfsr,
                               !.currentSampleA = fa.currentSample,
                               !.lfsrA = fa.lfsr,
                               !.outP = Append(@, fp.sample),
                               !.outA = Append(@, fa.sample),
                               !.n = @ + 1]
    /\ UNCHANGED <<obs, nticks, sinceInit, period, hist, alive, pulse, pobs, app, ui>>
    /\ UNCHANGED noiseVars
    /\ UNCHANGED blockVars
    /\ UNCHANGED waveVars

\* the first processor is given a call with the same snapshot
SplitBegin ==
    /\ twin.n = 2 * SplitFrames
    /\ blocks < 2
    /\ IF rev = {} THEN WaveBeginRun ELSE NoiseBegin
    /\ par' = twin.par

SplitNext ==
    \/ TwinFrame
    \/ SplitBegin
    \/ rev # {} /\ (NoiseFrame \/ NoiseReturn)
    \/ rev = {} /\ (WaveFrame \/ WaveReturn)

SpecSplit == SplitInit /\ [][SplitNext]_vars

(***************************************************************************)
(* SpecPulse: the PulseGenerator (pwm-processor.js), one destination       *)
(* channel of pulse.frames frames per render call.  dutyCycle is in         *)
(* quarters (DutyUnit), which binary floating point holds exactly; trigger *)
(* and gain are in tenths as above, so a sample is -gain or +gain.         *)
(***************************************************************************)
PulseBlocks == 4
DutyUnit == 4
PulseTriggers == {5, 10}
PulseGains == {5, 10}
PulseFrequencies == {8, 24, 128}
DutyCycles == {0, 1, 2, 4}

PulsePars ==
    {[trigger |-> t, gain |-> g, frequency |-> f, dutyCycle |-> d] :
        t \in PulseTriggers, g \in PulseGains, f \in PulseFrequencies, d \in DutyCycles}

\* period = floor(sampleRate / frequency)
PulsePeriod(r, p) == r \div p.frequency

\* highSamples = floor(period * dutyCycle)
MutHighSamples(r, p) == ((PulsePeriod(r, p) + 1) * p.dutyCycle) \div DutyUnit
HighSamples(r, p) == (PulsePeriod(r, p) * p.dutyCycle) \div DutyUnit

\* before emitting a frame: if c > period then c <- 0
MutWrapDue(c0, per) == c0 >= per
WrapDue(c0, per) == c0 > per

\* emitted sample = (c < highSamples ? -1 : +1) * gain
MutPulseSample(c0, high, gain) == (IF c0 <= high THEN -1 ELSE 1) * gain
PulseSample(c0, high, gain) == (IF c0 < high THEN -1 ELSE 1) * gain

\* one output frame: the counter it is emitted at, its sample, c afterwards
PulseFrameOf(c0, r, p) ==
    LET at == IF WrapDue(c0, PulsePeriod(r, p)) THEN 0 ELSE c0
    IN  [at |-> at,
         sample |-> PulseSample(at, HighSamples(r, p), p.gain),
         c |-> at + 1]

\* the observer after a frame emitted at counter `at`: a frame emitted at 0
\* closes a period, which counts when every frame since the one before it
\* was rendered at this frequency and duty cycle
PobsAfter(o, f, r, p) ==
    LET zero == f.at = 0
        key == <<p.frequency, p.dutyCycle>>
        low == f.at < HighSamples(r, p)
    IN  [at |-> f.at, written |-> TRUE, before |-> o.after, after |-> f.c,
         since |-> IF zero THEN 0 ELSE o.since + 1,
         steady |-> IF zero THEN <<key>> ELSE o.steady,
         gap |-> IF zero /\ o.steady = <<key>> THEN o.since + 1 ELSE 0,
         low |-> IF zero THEN (IF low THEN 1 ELSE 0) ELSE o.low + (IF low THEN 1 ELSE 0),
         high |-> IF zero THEN (IF low THEN 0 ELSE 1) ELSE o.high + (IF low THEN 0 ELSE 1),
         lowDone |-> IF zero THEN o.low ELSE 0,
         highDone |-> IF zero THEN o.high ELSE 0,
         idle |-> 0, resumed |-> o.idle]

\* the observer when a call begins: a disabled call or other parameters end
\* the run of frames at one frequency and duty cycle
PobsBegin(o, p) ==
    [o EXCEPT !.written = FALSE,
              !.steady = IF Enabled(p) /\ o.steady = <<<<p.frequency, p.dutyCycle>>>>
                         THEN o.steady ELSE <<>>,
              !.gap = 0,
              !.idle = IF Enabled(p) THEN o.idle ELSE o.idle + 1]

\* a render call is entered with this block's parameters; the host hands
\* over a zeroed destination; a disabled call writes no frame
MutPulseEnter(q, p) ==
    [q EXCEPT !.par = p,
              !.out = [k \in 1..q.frames |-> 0],
              !.blocks = q.blocks + 1,
              !.i = 0,
              !.c = IF Enabled(p) THEN q.c ELSE 0,
              !.pc = IF Enabled(p) THEN "loop" ELSE "done"]
PulseEnter(q, p) ==
    [q EXCEPT !.par = p,
              !.out = [k \in 1..q.frames |-> 0],
              !.blocks = q.blocks + 1,
              !.i = 0,
              !.pc = IF Enabled(p) THEN "loop" ELSE "done"]

PulseCall(pars) ==
    /\ pulse.pc = "idle"
    /\ pulse.blocks < PulseBlocks
    /\ \E p \in pars :
          /\ pulse' = PulseEnter(pulse, p)
          /\ pobs' = PobsBegin(pobs, p)
    /\ UNCHANGED <<noiseVars, obs, nticks, sinceInit, period, hist, alive, twin, app, ui>>
    /\ UNCHANGED <<blockVars, waveVars>>

PulseBegin == PulseCall(PulsePars)

\* one output frame of an enabled call
PulseFrame ==
    /\ pulse.pc = "loop"
    /\ LET f == PulseFrameOf(pulse.c, pulse.sampleRate, pulse.par)
       IN  /\ pulse' = [pulse EXCEPT !.c = f.c,
                                     !.out[pulse.i + 1] = f.sample,
                                     !.i = IF LoopOn(pulse.i + 1, pulse.frames)
                                           THEN pulse.i + 1 ELSE pulse.i,
                                     !.pc = IF LoopOn(pulse.i + 1, pulse.frames)
                                            THEN "loop" ELSE "done"]
           /\ pobs' = PobsAfter(pobs, f, pulse.sampleRate, pulse.par)
    /\ UNCHANGED <<noiseVars, obs, nticks, sinceInit, period, hist, alive, twin, app, ui>>
    /\ UNCHANGED <<blockVars, waveVars>>

PulseReturn ==
    /\ pulse.pc = "done"
    /\ pulse' = [pulse EXCEPT !.pc = "idle"]
    /\ pobs' = [pobs EXCEPT !.written = FALSE, !.gap = 0]
    /\ UNCHANGED <<noiseVars, obs, nticks, sinceInit, period, hist, alive, twin, app, ui>>
    /\ UNCHANGED <<blockVars, waveVars>>

PulseRenderInit ==
    /\ rev = {}
    /\ NoiseInit
    /\ TickObsInit
    /\ BlockInit
    /\ WaveInit

PulseNext == PulseBegin \/ PulseFrame \/ PulseReturn

SpecPulse == PulseRenderInit /\ [][PulseNext]_vars

(***************************************************************************)
(* SpecScenario: the PulseGenerator at sampleRate 48000, rendering calls   *)
(* of one render quantum at frequency 200 and dutyCycle 0.5.               *)
(***************************************************************************)
ScenarioRate == 48000
ScenarioFrequency == 200
ScenarioDuty == 2
RenderQuantum == 128

ScenarioPars ==
    [trigger : {10}, gain : PulseGains, frequency : {ScenarioFrequency},
     dutyCycle : {ScenarioDuty}]

ScenarioInit ==
    /\ rev = {}
    /\ NoiseInit
    /\ obs = NoObs
    /\ nticks = 0
    /\ sinceInit = 0
    /\ period = 0
    /\ hist = <<>>
    /\ alive = {}
    /\ twin = NoTwin
    /\ PulseInit(ScenarioRate, RenderQuantum)
    /\ AppInit("app.tsx")
    /\ UiInit
    /\ BlockInit
    /\ WaveInit

ScenarioBegin == PulseCall(ScenarioPars)

ScenarioNext == ScenarioBegin \/ PulseFrame \/ PulseReturn

SpecScenario == ScenarioInit /\ [][ScenarioNext]_vars

(***************************************************************************)
(* SpecApp: the App component's run loop.  Emulators are numbered from 1   *)
(* in the order WebEmulator.new creates them; 0 stands for undefined.  A   *)
(* pending animation-frame callback is a record of its request id, the     *)
(* function requested and the emulator that function's closure holds.      *)
(* JavaScript runs each callback and each continuation of an async handler *)
(* to its next await without interruption, so each is one step.            *)
(***************************************************************************)
MaxRoms == 2
MaxRuns == 4

AppVariants == {"app.tsx", "part_006"}

\* await audioContext.audioWorklet.addModule(...), in the order awaited
AfterModule(m) ==
    IF m = "pwm-processor.js" THEN "waveform-processor.js"
    ELSE IF m = "waveform-processor.js" THEN "white-noise-processor.js"
    ELSE "new"

\* requestAnimationFrame(fn): the callback list with fn appended
RequestFrame(a, fn, em) ==
    [a EXCEPT !.frames = @ \cup {[id |-> a.nextId, fn |-> fn, emulator |-> em]},
              !.nextId = @ + 1]

\* cancelAnimationFrame(id)
CancelFrame(a, id) == [a EXCEPT !.frames = {f \in @ : f.id # id}]

\* if (emulator) { emulator.free() }
FreeHeld(a, em) == [a EXCEPT !.freed = IF em # 0 THEN @ \cup {em} ELSE @]

\* handleRomSelected / handleRomChange, up to the first await: the handler
\* of the last render holds that render's emulator
HandleRomSelected ==
    /\ app.handler = "idle"
    /\ app.roms < MaxRoms
    /\ app' = [(IF app.variant = "part_006"
                THEN [app EXCEPT !.handler = "arrayBuffer"]
                ELSE [FreeHeld(app, app.rendered) EXCEPT !.handler = "pwm-processor.js"])
               EXCEPT !.held = app.rendered, !.roms = @ + 1]
    /\ UNCHANGED <<noiseVars, obs, nticks, sinceInit, period, hist, alive, twin, pulse, pobs, ui>>
    /\ UNCHANGED <<blockVars, waveVars>>

\* the handler resumes after an await: after file.arrayBuffer() it frees the
\* emulator it holds; after the last addModule it creates the new emulator
\* and calls setEmulator (handleRomChange also requests drawChannels)
HandlerResume ==
    /\ app.handler \notin {"idle"}
    /\ app' =
         IF app.handler = "arrayBuffer"
         THEN [FreeHeld(app, app.held) EXCEPT !.handler = "pwm-processor.js"]
         ELSE IF AfterModule(app.handler) # "new"
         THEN [app EXCEPT !.handler = AfterModule(app.handler)]
         ELSE LET new == app.created + 1
                  set == [app EXCEPT !.created = new, !.emulator = new,
                                     !.handler = "idle", !.held = 0]
              IN  IF app.variant = "part_006"
                  THEN RequestFrame(set, "drawChannels", new)
                  ELSE set
    /\ UNCHANGED <<noiseVars, obs, nticks, sinceInit, period, hist, alive, twin, pulse, pobs, ui>>
    /\ UNCHANGED <<blockVars, waveVars>>

\* the render after setEmulator and its effect, useEffect(..., [emulator])
EmulatorEffect ==
    /\ app.emulator # app.rendered
    /\ LET cancelled == IF app.animationFrameId # 0
                        THEN CancelFrame(app, app.animationFrameId) ELSE app
           requested == IF app.emulator # 0 /\ ~app.paused
                        THEN RequestFrame(cancelled, "execute", app.emulator)
                        ELSE cancelled
       IN  app' = [requested EXCEPT !.rendered = app.emulator]
    /\ UNCHANGED <<noiseVars, obs, nticks, sinceInit, period, hist, alive, twin, pulse, pobs, ui>>
    /\ UNCHANGED <<blockVars, waveVars>>

\* the browser runs the pending callback requested first
NextFrame == CHOOSE f \in app.frames : \A g \in app.frames : f.id <= g.id

\* execute(): emulator?.run_for_nanos(...) on the emulator of its closure,
\* then scheduleRun(); the call on a freed emulator throws, which ends
\* execute before scheduleRun
Execute ==
    /\ app.frames # {}
    /\ app.runs < MaxRuns
    /\ LET f == NextFrame
           taken == [app EXCEPT !.frames = @ \ {f}, !.runs = @ + 1]
       IN  /\ f.fn = "execute"
           /\ app' =
                IF f.emulator = 0
                THEN [RequestFrame(taken, "execute", 0)
                        EXCEPT !.animationFrameId = app.nextId, !.ran = <<>>]
                ELSE IF f.emulator \in app.freed
                THEN [taken EXCEPT !.ran = <<[emulator |-> f.emulator, live |-> FALSE]>>]
                ELSE [RequestFrame(taken, "execute", f.emulator)
                        EXCEPT !.animationFrameId = app.nextId,
                               !.ran = <<[emulator |-> f.emulator, live |-> TRUE]>>]
    /\ UNCHANGED <<noiseVars, obs, nticks, sinceInit, period, hist, alive, twin, pulse, pobs, ui>>
    /\ UNCHANGED <<blockVars, waveVars>>

\* drawChannels(newEmulator)(): newEmulator.draw(), then requests itself
DrawChannels ==
    /\ app.frames # {}
    /\ app.runs < MaxRuns
    /\ LET f == NextFrame
           taken == [app EXCEPT !.frames = @ \ {f}, !.runs = @ + 1]
       IN  /\ f.fn = "drawChannels"
           /\ app' = IF f.emulator \in app.freed
                     THEN taken
                     ELSE RequestFrame(taken, "drawChannels", f.emulator)
    /\ UNCHANGED <<noiseVars, obs, nticks, sinceInit, period, hist, alive, twin, pulse, pobs, ui>>
    /\ UNCHANGED <<blockVars, waveVars>>

AppRenderInit ==
    /\ rev = {}
    /\ NoiseInit
    /\ obs = NoObs
    /\ nticks = 0
    /\ sinceInit = 0
    /\ period = 0
    /\ hist = <<>>
    /\ alive = {}
    /\ twin = NoTwin
    /\ PulseInit(SampleRate, BlockFrames)
    /\ \E v \in AppVariants : AppInit(v)
    /\ UiInit
    /\ BlockInit
    /\ WaveInit

AppNext == HandleRomSelected \/ HandlerResume \/ EmulatorEffect \/ Execute \/ DrawChannels

SpecApp == AppRenderInit /\ [][AppNext]_vars

\* ---------------------------------------------------------------------------
\* TabPane (tab-pane.tsx) and ButtonBar (part_005) around one emulator
\* ---------------------------------------------------------------------------

\* the clicks one run makes on the tabs and on the Pause button together
MaxClicks == 4

\* enum Tab
Tabs == {"TILE_MEMORY", "OBJECT_MEMORY"}

\* TABS[..].callback: set_tile_atlas_rendering_enabled(enabled) for the tile
\* tab, set_object_atlas_rendering_enabled(enabled) for the object tab
Callback(u, tab, enabled) ==
    IF tab = "TILE_MEMORY" THEN [u EXCEPT !.tile = enabled]
                           ELSE [u EXCEPT !.object = enabled]

\* getTab's onClick: a click on the active tab clears activeTab, queues
\* callback(false) and calls callback(false) at once; a click on any other tab
\* makes it the active one and queues callback(true), and that is all it does
ClickTab ==
    /\ ui.clicks < MaxClicks
    /\ \E tab \in Tabs :
         IF ui.activeTab = tab
         THEN ui' = [Callback(ui, tab, FALSE) EXCEPT
                        !.activeTab = "undefined",
                        !.timeouts = Append(ui.timeouts, <<tab, FALSE>>),
                        !.clicks = ui.clicks + 1]
         ELSE ui' = [ui EXCEPT
                        !.activeTab = tab,
                        !.timeouts = Append(ui.timeouts, <<tab, TRUE>>),
                        !.clicks = ui.clicks + 1]
    /\ UNCHANGED <<rev, lfsrP, currentSampleP, lfsrA, currentSampleA>>
    /\ UNCHANGED <<obs, nticks, sinceInit, period, hist, alive, twin, pulse, pobs, app>>
    /\ UNCHANGED <<blockVars, waveVars>>

\* the oldest setTimeout(() => callback(enabled), 0) fires
RunTimeout ==
    /\ ui.timeouts # <<>>
    /\ ui' = [Callback(ui, Head(ui.timeouts)[1], Head(ui.timeouts)[2]) EXCEPT
                 !.timeouts = Tail(ui.timeouts)]
    /\ UNCHANGED <<rev, lfsrP, currentSampleP, lfsrA, currentSampleA>>
    /\ UNCHANGED <<obs, nticks, sinceInit, period, hist, alive, twin, pulse, pobs, app>>
    /\ UNCHANGED <<blockVars, waveVars>>

\* togglePaused, the Pause button's onClick: set_paused(is_paused())
TogglePaused ==
    /\ ui.clicks < MaxClicks
    /\ LET isPaused == ui.paused
       IN  ui' = [ui EXCEPT !.paused = isPaused,
                            !.toggled = <<isPaused>>,
                            !.clicks = ui.clicks + 1]
    /\ UNCHANGED <<rev, lfsrP, currentSampleP, lfsrA, currentSampleA>>
    /\ UNCHANGED <<obs, nticks, sinceInit, period, hist, alive, twin, pulse, pobs, app>>
    /\ UNCHANGED <<blockVars, waveVars>>

UiNext == ClickTab \/ RunTimeout \/ TogglePaused

SpecUi == AppRenderInit /\ [][UiNext]_vars

(***************************************************************************)
(* SpecModes: one revision of the noise generator under any sequence of    *)
(* doTick calls, the flag free to differ from one call to the next (a      *)
(* block's width decides the flag, and a block may hold a single tick).    *)
(***************************************************************************)
ModesInit ==
    /\ OneRevInit
    /\ alive = {}

ModesTick ==
    /\ \E short \in BOOLEAN : Tick(short)
    /\ UNCHANGED <<nticks, sinceInit, period, hist, alive, twin, pulse, pobs, app, ui>>
    /\ UNCHANGED blockVars
    /\ UNCHANGED waveVars

ModesNext == ModesTick

SpecModes == ModesInit /\ [][ModesNext]_vars

(***************************************************************************)
(* SpecRestart: the array revision rendering one call of any parameters,   *)
(* then a disabled call, then enabled single-channel calls of one          *)
(* snapshot; beside it a second processor, as constructed, has rendered    *)
(* that snapshot over one call of twice the channel length.                *)
(***************************************************************************)
RestartBlocks == 4

RestartInit ==
    /\ rev = {"array"}
    /\ NoiseInit
    /\ obs = NoObs
    /\ nticks = 0
    /\ sinceInit = 0
    /\ period = 0
    /\ hist = <<>>
    /\ alive = {}
    /\ \E p \in SplitPars : twin = TwinInit(p)
    /\ PulseInit(SampleRate, BlockFrames)
    /\ AppInit("app.tsx")
    /\ UiInit
    /\ BlockInit
    /\ WaveInit

RestartBegin ==
    /\ twin.n = 2 * SplitFrames
    /\ NoiseCall(RestartBlocks)
    /\ blocks = 1 => par'.trigger <= Half
    /\ blocks >= 2 => par' = twin.par

RestartNext == TwinFrame \/ RestartBegin \/ NoiseFrame \/ NoiseReturn

SpecRestart == RestartInit /\ [][RestartNext]_vars

(***************************************************************************)
(* SpecResume: the wavetable generator over three calls of one gain and    *)
(* one set of data words, each call enabled or not, with no message.       *)
(***************************************************************************)
ResumeBlocks == 3

ResumeBegin == WaveCall(ResumeBlocks, CallGains, CallWordTuples, WaveFrames)

ResumeNext == ResumeBegin \/ WaveFrame \/ WaveReturn

SpecResume == WaveRenderInit /\ [][ResumeNext]_vars

(***************************************************************************)
(* SpecUnpack: getSample as a function of one data word and the index.     *)
(* The word's four low nibbles are each drawn from NibbleSamples, under a  *)
(* zero or a non-zero upper half; 0x12345678 is added as it stands.        *)
(***************************************************************************)
NibbleSamples == {0, 5, 10, 15}

UnpackWords ==
    {h * 65536 + a * 4096 + b * 256 + c * 16 + d :
        h \in {0, 4660}, a \in NibbleSamples, b \in NibbleSamples,
        c \in NibbleSamples, d \in NibbleSamples}
    \cup {305419896}

UnpackInit ==
    /\ rev = {}
    /\ NoiseInit
    /\ TickObsInit
    /\ pc = "idle"
    /\ \E w \in UnpackWords, index \in 0..31 :
          /\ par = [NoPar EXCEPT !.chans = 0] @@
                   [words |-> [k \in 0..7 |-> IF k = index \div 4 THEN w ELSE 0]]
          /\ unp = [done |-> FALSE, index |-> index, nibble |-> 0, sample |-> 0]
    /\ ch = 0
    /\ i = 0
    /\ out = NoOut
    /\ last = NoLast
    /\ blocks = 0
    /\ cad = NoCad
    /\ ret = NoRet
    /\ data = InitData
    /\ currentSampleW = 0
    /\ currentWaveformSample = 0
    /\ port = <<>>
    /\ posted = 0
    /\ delivered = 0
    /\ cadW = NoCadW
    /\ sent = NoSent
    /\ dup = 0

Unpack ==
    /\ ~unp.done
    /\ unp' = [done |-> TRUE, index |-> unp.index,
               nibble |-> GetNibble(par.words, unp.index),
               sample |-> GetSample(par.words, unp.index)]
    /\ UNCHANGED <<data, currentSampleW, currentWaveformSample, port, posted, delivered,
                   cadW, sent, dup>>
    /\ UNCHANGED noiseVars
    /\ UNCHANGED tickVars
    /\ UNCHANGED blockVars

UnpackNext == Unpack

SpecUnpack == UnpackInit /\ [][UnpackNext]_vars

(***************************************************************************)
(* Properties of doTick.                                                   *)
(***************************************************************************)
\* feedback = (bit0 == bit1) of the register the last doTick call found
FeedbackOfP == IF BitAt(obs.preP, 0) = BitAt(obs.preP, 1) THEN 1 ELSE 0
FeedbackOfA == obs.preA[1] = obs.preA[2]

\* C2 (as claimed): after a doTick(true), in both revisions, the vacated
\* high bit and the short-mode tap bit both equal the feedback computed
\* from the old bit0 and bit1, whether that feedback is 1 or 0.
C2_ShortTickWritesFeedback ==
    (obs.ticked /\ obs.short) =>
        /\ BitAt(lfsrP, HighBitP) = FeedbackOfP
        /\ BitAt(lfsrP, TapBitP) = FeedbackOfP
        /\ lfsrA[RegLen] = FeedbackOfA
        /\ lfsrA[TapIdxA + 1] = FeedbackOfA

\* C3 (as claimed): both revisions, started all-zero and given the same
\* ticks with the same flags, show the same bit0 after every tick.
C3_SameBit0 ==
    obs.ticked => BitAt(lfsrP, 0) = ToInt(lfsrA[1])

\* C4 (as claimed): in every reachable state the register is RegLen = 15
\* bits wide: the packed register is below 2^15 and the array has exactly
\* 15 entries.
C4_FifteenBits ==
    /\ lfsrP < 2 ^ RegLen
    /\ Len(lfsrA) = RegLen

\* C5: after a doTick(false) on any register value, every bit below the
\* high bit equals the old bit one position above it and the high bit (the
\* bit the shift vacated: bit HighBitP of the packed register, the last
\* entry of the array) equals feedback = (old bit0 == old bit1); nothing
\* above the high bit is set.
C5_LongTickShifts ==
    (obs.ticked /\ ~obs.short) =>
        /\ \A k \in 0..(HighBitP - 1) : BitAt(lfsrP, k) = BitAt(obs.preP, k + 1)
        /\ BitAt(lfsrP, HighBitP) = FeedbackOfP
        /\ lfsrP < 2 ^ (HighBitP + 1)
        /\ Len(lfsrA) = RegLen
        /\ \A k \in 1..(RegLen - 1) : lfsrA[k] = obs.preA[k + 1]
        /\ lfsrA[RegLen] = FeedbackOfA

\* C5 witness: a long tick has run on a register with bit0 = bit1 = 1 and
\* bit 9 set, and left the feedback 1 in the high bit and bit 8 set.
C5_Witness ==
    /\ obs.ticked /\ ~obs.short
    /\ BitAt(obs.preP, 0) = 1 /\ BitAt(obs.preP, 1) = 1 /\ BitAt(obs.preP, 9) = 1
    /\ BitAt(lfsrP, HighBitP) = 1 /\ BitAt(lfsrP, 8) = 1
    /\ lfsrA[RegLen] /\ lfsrA[9]

(***************************************************************************)
(* Properties of the free-running register.                                *)
(***************************************************************************)
\* C6: all-zero at construction and ticked in long mode only, the register
\* is all-zero again after at most 2^15 - 1 ticks; every output is a
\* function of the register, so the per-tick outputs repeat with that
\* period.
C6_LongPeriod ==
    /\ sinceInit < LongPeriodMax
    /\ period <= LongPeriodMax

\* C6 witness: the array revision has come back to all-zero, after exactly
\* 2^15 - 1 ticks.
C6_Witness ==
    /\ rev = {"array"}
    /\ period = LongPeriodMax
    /\ lfsrA = ZeroArr

\* C7 (as claimed): all-zero at construction and ticked in short mode only,
\* the per-tick outputs o(1), o(2), ... are periodic with a period of at
\* most 2^7 - 1: some p in 1..2^7-1 has o(n+p) = o(n) for every n.
C7_ShortPeriod ==
    alive # {}

(***************************************************************************)
(* Properties of WhiteNoiseProcessor.process.                              *)
(***************************************************************************)
\* a frame has been written in the running call
FrameWritten == pc \in {"loop", "done"} /\ last # NoLast

\* C8: when two consecutive ticks of a revision both fall in a run of
\* enabled calls at one frequency f, the second comes exactly
\* floor(sampleRate/f) + 1 rendered frames (loop iterations) after the
\* first, whether or not a call boundary lies between them.
C8_TickCadence ==
    \A r \in Revs :
        cad[r].gap # 0 => cad[r].gap = (SampleRate \div par.frequency) + 1

\* C8 witness: in the second call a tick closes a gap of more than one
\* frame that is longer than the part of this call rendered so far: the
\* tick before it fell in the first call.
C8_Witness ==
    /\ blocks = 2
    /\ FrameWritten
    /\ \A r \in Revs :
          /\ cad[r].gap > 1
          /\ (last[1] - 1) * BlockFrames + last[2] <= cad[r].gap

\* C9: the frame written last is -gain when bit 0 of the register, as the
\* tick due on that frame (if any) left it, is 1, and +gain when it is 0.
C9_SampleFromBit0 ==
    FrameWritten =>
        /\ out["packed"][last[1]][last[2]] =
               (IF BitAt(lfsrP, 0) = 1 THEN 0 - par.gain ELSE par.gain)
        /\ out["array"][last[1]][last[2]] =
               (IF lfsrA[1] THEN 0 - par.gain ELSE par.gain)

\* C9 witness: both revisions have just ticked, bit 0 is 1 in both, and
\* both wrote -gain for a gain above 0.
C9_Witness ==
    /\ FrameWritten
    /\ cad["packed"].since = 0 /\ cad["packed"].steady # 0
    /\ BitAt(lfsrP, 0) = 1 /\ lfsrA[1]
    /\ par.gain > 0
    /\ out["packed"][last[1]][last[2]] = 0 - par.gain
    /\ out["array"][last[1]][last[2]] = 0 - par.gain

(***************************************************************************)
(* Properties of WaveformProcessor.                                        *)
(***************************************************************************)
\* C1 (as claimed): once a "replace wavetable" message has been delivered,
\* every frame written takes its amplitude, 1 - 2*nibble/15, from the
\* entry of the delivered table (this.data) at the current step index.
C1_FramesFromDeliveredTable ==
    (delivered > 0 /\ FrameWritten) =>
        out["wave"][last[1]][last[2]] =
            (15 - 2 * data[currentWaveformSample + 1]) * par.gain

\* C10: for every word and index i of 0..31 the nibble getSample decodes is
\* hex digit 2*floor((i mod 4)/2) + (1 if i is even, else 0) of word
\* floor(i/4), counted from the low end; the four indices of the word
\* 0x12345678 decode to 7, 8, 5, 6.
C10_NibbleUnpacking ==
    unp.done =>
        LET w == par.words[unp.index \div 4]
            digit == 2 * ((unp.index % 4) \div 2) + (IF unp.index % 2 = 0 THEN 1 ELSE 0)
        IN  /\ unp.nibble = (w \div (16 ^ digit)) % 16
            /\ w = 305419896 => unp.nibble = <<7, 8, 5, 6>>[(unp.index % 4) + 1]

\* C10 witness: index 9 of a table whose word 2 is 0x12345678 has been
\* decoded, to 8.
C10_Witness ==
    /\ unp.done
    /\ unp.index = 9
    /\ par.words[2] = 305419896
    /\ unp.nibble = 8

\* the sample the running call wrote last
LastW == out["wave"][last[1]][last[2]]

\* every one of the 32 nibbles of the eight data words is n
AllNibbles(words, n) == \A k \in 0..7 : words[k] % 65536 = n * 4369

\* C11: when all 32 nibbles of the call's wavetable are 0, every frame an
\* enabled call writes is +1 * gain (15 fifteenths times gain); when all
\* are 15, every frame is -1 * gain; at every frequency, in every call.
C11_ConstantTables ==
    FrameWritten =>
        /\ AllNibbles(par.words, 0) => LastW = 15 * par.gain
        /\ AllNibbles(par.words, 15) => LastW = 0 - 15 * par.gain

\* C11 witness: the second call, at frequency 1 and gain 1, has written
\* -1 from an all-15 table after the step index has moved on from 0.
C11_Witness ==
    /\ blocks = 2
    /\ FrameWritten
    /\ AllNibbles(par.words, 15)
    /\ par.frequency = 1 /\ par.gain = 10
    /\ currentWaveformSample > 0
    /\ LastW = 0 - 150

\* C12: over a run of enabled calls at one frequency f, a frame changes
\* the step index by exactly +1 modulo 32 or not at all, two consecutive
\* changes lie exactly floor(floor(sampleRate/f)/32) + 1 rendered frames
\* apart, and no more than that many frames pass without a change.
C12_StepCadence ==
    FrameWritten =>
        LET k == (SampleRate \div par.frequency) \div 32
        IN  /\ currentWaveformSample # cadW.prev =>
                   currentWaveformSample = (cadW.prev + 1) % 32
            /\ cadW.gap # 0 => cadW.gap = k + 1
            /\ cadW.steady # 0 => cadW.since <= k

\* C12 witness: in the second call a change of the step index closes a gap
\* of three frames that began in the first call.
C12_Witness ==
    /\ blocks = 2
    /\ FrameWritten
    /\ cadW.gap = 3
    /\ (last[1] - 1) * par.frames + last[2] < cadW.gap
    /\ currentWaveformSample = cadW.prev + 1

\* C13: in every reachable state, whatever calls were rendered and
\* whatever messages were posted and delivered, the step index
\* (this.currentWaveformSample) is an integer of 0..31.
C13_StepInRange ==
    currentWaveformSample \in 0..31

\* C13 witness: a frame has taken the step index from 31 round to 0, with a
\* replacement message delivered before it.
C13_Witness ==
    /\ FrameWritten
    /\ delivered > 0
    /\ cadW.prev = 31
    /\ currentWaveformSample = 0

\* C14 (as claimed): in every reachable state the wavetable (this.data) has
\* exactly 32 entries, each an integer of 0..15: as the constructor
\* installs it and after every delivered 32-nibble payload.
C14_TableOfNibbles ==
    /\ Len(data) = 32
    /\ \A k \in 1..32 : data[k] \in 0..15

\* C15: no step taken while a process() call is in its frame loop changes
\* the wavetable (this.data) or the call's parameter snapshot, so every
\* frame of one call is computed from one and the same table, however
\* posts and deliveries interleave with calls.
C15_NoSwapInsideCall ==
    [][pc = "loop" => (data' = data /\ par' = par)]_vars

\* C15 witness: a call that began after one delivery is part-way through
\* its frames while another message waits in the port.
C15_Witness ==
    /\ pc = "loop"
    /\ last # NoLast
    /\ delivered > 0
    /\ port # <<>>

\* C16: a delivery whose payload is the table the delivery before it
\* installed changes nothing of the generator: this.data, the frame counter
\* and the step index are as the first of the two left them, so every call
\* rendered afterwards writes what it would have written after one delivery.
C16_SamePayloadTwice ==
    [][(delivered' = delivered + 1 /\ delivered > 0 /\ Head(port) = data) =>
          /\ data' = data
          /\ currentSampleW' = currentSampleW
          /\ currentWaveformSample' = currentWaveformSample]_vars

\* C16 witness: a call is writing frames after the second of two deliveries
\* of the same payload.
C16_Witness ==
    /\ delivered = 2
    /\ dup = 1
    /\ FrameWritten
    /\ data \in Tables

\* C17: once every message posted so far has been delivered, the wavetable
\* (this.data) is the payload of the message posted last, whatever calls
\* ran between the posts and the deliveries.
C17_LastSentWins ==
    (posted > 0 /\ delivered = posted) => data = sent

\* C17 witness: two messages with different payloads have both been
\* delivered, a call has run, and the table is the second payload.
C17_Witness ==
    /\ posted = 2
    /\ delivered = 2
    /\ dup = 0
    /\ blocks > 0
    /\ data = sent

(***************************************************************************)
(* Properties of process() common to the generators.                       *)
(***************************************************************************)
\* outputs[0] as the host handed it to the running call
HostBuf ==
    IF rev = {}
    THEN [g \in {"wave"} |-> ZeroFrames(par.chans, par.frames)]
    ELSE [r \in rev |-> ZeroBuf(par.chans)]

\* C18: a call whose trigger is at most 0.5 writes no sample: when it
\* returns, outputs[0] is as the host handed it over, in the wavetable
\* generator and in both revisions of the noise generator.
C18_DisabledWritesNothing ==
    (pc = "done" /\ par.trigger <= Half) =>
        /\ last = NoLast
        /\ out = HostBuf

\* C18 witness: after a call that rendered frames, both noise revisions
\* return from a call with trigger exactly 0.5 and a gain above 0 with the
\* buffer untouched.
C18_Witness ==
    /\ rev = Revs
    /\ blocks = 2
    /\ pc = "done"
    /\ par.trigger = Half
    /\ par.gain > 0
    /\ currentSampleP > 0
    /\ out = HostBuf

\* C19: whether a call renders is decided once, from the trigger of its
\* snapshot: the frame loop runs only in a call whose trigger is above 0.5,
\* and a call returns with every frame of every channel written when its
\* trigger is above 0.5 and with none written otherwise (0.5 itself
\* included), whatever the trigger of the call before it was.
C19_EnabledPerCall ==
    /\ pc = "loop" => par.trigger > Half
    /\ pc = "done" =>
          IF par.trigger > Half
          THEN /\ last = <<par.chans, par.frames>>
               /\ par.gain > 0 =>
                     \A c \in 1..par.chans : \A k \in 1..par.frames :
                         out["wave"][c][k] # 0
          ELSE /\ last = NoLast
               /\ out = HostBuf

\* C19 witness: the wavetable generator rendered a call in full and then
\* returns from a call with trigger exactly 0.5 with no frame written.
C19_Witness ==
    /\ rev = {}
    /\ blocks = 2
    /\ pc = "done"
    /\ par.trigger = Half
    /\ par.gain > 0
    /\ currentSampleW > 0
    /\ last = NoLast

\* channel.length of the running call
CallFrames == IF rev = {} THEN par.frames ELSE BlockFrames

\* the sample value that stands for 1.0: gains are in tenths, and the
\* wavetable amplitudes in fifteenths
FullScale(g) == IF g = "wave" THEN 150 ELSE 10

\* C20: a call whose trigger is above 0.5, with a gain in [0, 1], returns
\* having written one sample to each of the F frames of every channel -
\* the last of them frame F of the last channel - and every sample lies in
\* [-1, 1]: in the wavetable generator for any data words and in the noise
\* generator.
C20_FullBlockInRange ==
    (pc = "done" /\ par.trigger > Half) =>
        /\ last = <<par.chans, CallFrames>>
        /\ \A g \in DOMAIN out : \A c \in 1..par.chans :
              /\ Len(out[g][c]) = CallFrames
              /\ \A k \in 1..CallFrames :
                    /\ out[g][c][k] >= 0 - FullScale(g)
                    /\ out[g][c][k] <= FullScale(g)

\* C20 witness: the wavetable generator returns from its second call, at
\* gain 1 over two channels, with every sample at -1.
C20_Witness ==
    /\ rev = {}
    /\ blocks = 2
    /\ pc = "done"
    /\ par.trigger > Half
    /\ par.gain = 10
    /\ par.chans = 2
    /\ \A c \in 1..2 : \A k \in 1..par.frames : out["wave"][c][k] = 0 - 150

\* C21: no phase counter is ever negative, and after every rendered frame
\* each counter of the running generator lies in 1..threshold+1, where the
\* threshold is the running call's floor(sampleRate/frequency) for the
\* noise generator and floor(floor(sampleRate/frequency)/32) for the
\* wavetable generator, whatever the frequency of the call before was.
C21_CounterInRange ==
    /\ currentSampleP >= 0 /\ currentSampleA >= 0 /\ currentSampleW >= 0
    /\ FrameWritten =>
          LET t == SampleRate \div par.frequency
          IN  IF rev = {}
              THEN currentSampleW \in 1..((t \div 32) + 1)
              ELSE /\ currentSampleP \in 1..(t + 1)
                   /\ currentSampleA \in 1..(t + 1)

\* C21 witness: the noise generator ticked in an earlier call at another
\* frequency, and in this call, before any tick at the new frequency, both
\* counters stand at the new threshold + 1.
C21_Witness ==
    /\ rev = Revs
    /\ blocks = 2
    /\ FrameWritten
    /\ lfsrP # 0
    /\ cad["packed"].steady = 0
    /\ par.frequency = 24
    /\ currentSampleP = (SampleRate \div par.frequency) + 1
    /\ currentSampleA = (SampleRate \div par.frequency) + 1

\* C22: two processors of one kind start as constructed and render the
\* same enabled snapshot over one channel.  Every sample the first writes
\* in its two calls of F frames is the sample the second wrote at the same
\* position of its one call of 2F frames, and after the second call the
\* first's counters, step index and registers equal the second's.
C22_BlockSizeUnobservable ==
    /\ FrameWritten =>
          LET k == (blocks - 1) * SplitFrames + last[2]
          IN  IF rev = {}
              THEN LastW = twin.outW[k]
              ELSE /\ out["packed"][1][last[2]] = twin.outP[k]
                   /\ out["array"][1][last[2]] = twin.outA[k]
    /\ (blocks = 2 /\ pc = "done") =>
          IF rev = {}
          THEN /\ currentSampleW = twin.currentSampleW
               /\ currentWaveformSample = twin.currentWaveformSample
          ELSE /\ currentSampleP = twin.currentSampleP
               /\ lfsrP = twin.lfsrP
               /\ currentSampleA = twin.currentSampleA
               /\ lfsrA = twin.lfsrA

\* C22 witness: the wavetable generator has returned from the second of
\* two calls whose boundary fell inside a step of three frames, having
\* written samples of both signs.
C22_Witness ==
    /\ rev = {}
    /\ blocks = 2
    /\ pc = "done"
    /\ par.frequency = 1
    /\ par.gain = 10
    /\ cadW.since > 0
    /\ \E k \in 1..par.frames : out["wave"][1][k] < 0
    /\ \E k \in 1..twin.n : twin.outW[k] > 0
    /\ currentWaveformSample = twin.currentWaveformSample

\* C23: a disabled call of the noise generator (entered from idle and done
\* at once) leaves the packed register and both tick counters as they were
\* and leaves the array register all-zero; its return changes no field of
\* either revision.
C23_DisablePolicies ==
    [][/\ (pc = "idle" /\ pc' = "done") =>
             /\ lfsrP' = lfsrP
             /\ currentSampleP' = currentSampleP
             /\ currentSampleA' = currentSampleA
             /\ lfsrA' = ZeroArr
       /\ pc = "done" => UNCHANGED noiseVars]_vars

\* C23 witness: after a call that ticked both registers, a disabled call is
\* done: the packed register still holds its bits, the array register is
\* all-zero, and both counters stand where the first call left them.
C23_Witness ==
    /\ rev = Revs
    /\ blocks = 2
    /\ pc = "done"
    /\ par.trigger <= Half
    /\ lfsrP # 0
    /\ lfsrA = ZeroArr
    /\ currentSampleP > 0
    /\ currentSampleA = currentSampleP

\* C24: every call returns, and returns true: a call that has been entered
\* is followed by the idle processor holding the return value true,
\* whatever the port holds and without a delivery in between.  Each
\* iteration of the frame loop moves on to the next frame of the channel or
\* to frame 0 of the next channel, inside the F frames of the channels
\* given (a post to the port in between moves nothing); a disabled call is
\* done on entry.
C24_CallReturns ==
    /\ [](pc = "loop" =>
            /\ ch \in 1..par.chans
            /\ i \in 0..(CallFrames - 1))
    /\ [][(pc = "loop" /\ pc' = "loop") =>
            \/ ch' = ch /\ i' = i + 1
            \/ ch' = ch + 1 /\ i' = 0
            \/ UNCHANGED <<ch, i, last>>]_vars
    /\ [][(pc = "idle" /\ pc' # "idle" /\ par'.trigger <= Half) => pc' = "done"]_vars
    /\ (pc # "idle") ~> (pc = "idle" /\ ret = <<TRUE>>)

\* C24 witness: the wavetable generator has returned from two calls while
\* a message posted before the first was waiting in the port throughout.
C24_Witness ==
    /\ rev = {}
    /\ blocks = 2
    /\ pc = "idle"
    /\ ret = <<TRUE>>
    /\ delivered = 0
    /\ port # <<>>
    /\ currentSampleW > 0

\* C25: over a run of enabled calls at one frequency f, two consecutive
\* frames emitted at counter 0 lie exactly floor(sampleRate/f) + 1 frames
\* apart, and no more than floor(sampleRate/f) frames follow a frame emitted
\* at 0 before the next one: the counter returns to 0 once every
\* floor(sampleRate/f) + 1 frames.
C25_PulsePeriodLength ==
    pobs.written =>
        LET per == pulse.sampleRate \div pulse.par.frequency
        IN  /\ pobs.gap # 0 => pobs.gap = per + 1
            /\ pobs.steady # <<>> => pobs.since <= per
            /\ pobs.at = 0 <=> pobs.since = 0

\* C25 witness: at frequency 8 (floor(64/8) = 8) a frame of a later call is
\* emitted at 0, nine frames after the one before it.
C25_Witness ==
    /\ pulse.blocks >= 2
    /\ pobs.written
    /\ pulse.par.frequency = 8
    /\ pobs.gap = 9

\* the sample written last by the PulseGenerator, and the frames it has
\* emitted since the frame emitted at 0 (that frame included)
PulseLast == pulse.out[IF pulse.pc = "loop" THEN pulse.i ELSE pulse.frames]
PulseGain == pulse.par.gain

\* C26 (as claimed): at sampleRate 48000 and frequency 200 the period is 240
\* frames (two consecutive frames emitted at counter 0 lie 240 frames apart);
\* at dutyCycle 0.5 its first 120 frames are -gain and the others +gain.
C26_Period240 ==
    pobs.written =>
        /\ pobs.gap # 0 => pobs.gap = 240
        /\ PulseLast = IF pobs.since < 120 THEN 0 - PulseGain ELSE PulseGain

\* C26 (amended): at sampleRate 48000 and frequency 200 the period parameter
\* floor(sampleRate/frequency) is 240 and a period spans 241 frames; at
\* dutyCycle 0.5 its first 120 frames are -gain and its other 121 frames
\* are +gain.
C26_Period241 ==
    pobs.written =>
        /\ pulse.sampleRate \div pulse.par.frequency = 240
        /\ pobs.gap # 0 => /\ pobs.gap = 241
                           /\ pobs.lowDone = 120
                           /\ pobs.highDone = 121
        /\ pobs.since <= 240
        /\ PulseLast = IF pobs.since < 120 THEN 0 - PulseGain ELSE PulseGain

\* C26 witness: the second period begins, in the second call: the frame
\* emitted at 0 after 120 frames of -gain and 121 frames of +gain.
C26_Witness ==
    /\ pobs.written
    /\ pobs.gap = 241
    /\ pulse.blocks = 2
    /\ PulseLast = 0 - PulseGain
    /\ pobs.lowDone = 120
    /\ pobs.highDone = 121

\* C27: a frame emitted at counter c is -gain when
\* c < floor(floor(sampleRate/f) * dutyCycle) and +gain otherwise; a period
\* rendered at one frequency and duty cycle has exactly that many -gain
\* frames and at least one +gain frame, so dutyCycle 0 gives +gain on every
\* frame and dutyCycle 1 one +gain frame per period.
C27_DutySplit ==
    pobs.written =>
        LET per == pulse.sampleRate \div pulse.par.frequency
            high == (per * pulse.par.dutyCycle) \div DutyUnit
        IN  /\ PulseLast = IF pobs.at < high THEN 0 - PulseGain ELSE PulseGain
            /\ pobs.gap # 0 => /\ pobs.lowDone = high
                               /\ pobs.highDone = per + 1 - high
                               /\ pobs.highDone >= 1
            /\ pulse.par.dutyCycle = 0 => PulseLast = PulseGain
            /\ (pulse.par.dutyCycle = DutyUnit /\ pobs.gap # 0) => pobs.highDone = 1

\* C27 witness: at dutyCycle 1 and frequency 8 a period of nine frames has
\* closed with eight -gain frames and one +gain frame.
C27_Witness ==
    /\ pobs.written
    /\ pulse.par.dutyCycle = DutyUnit
    /\ pulse.par.frequency = 8
    /\ pobs.gap = 9
    /\ pobs.lowDone = 8
    /\ pobs.highDone = 1

\* C28: the counter c changes only when a frame is emitted: a disabled call
\* writes no frame and leaves c as the last emitted frame left it, however
\* many disabled calls follow each other; the first frame after them is
\* emitted at that value (wrapped to 0 when it exceeds the period) and has
\* the sample of that counter value, as if no disabled call had occurred.
C28_FrozenWhileDisabled ==
    /\ pulse.c = pobs.after
    /\ (pulse.pc # "idle" /\ pulse.par.trigger <= Half) =>
           /\ pulse.pc = "done"
           /\ \A k \in 1..pulse.frames : pulse.out[k] = 0
    /\ (pobs.written /\ pobs.resumed > 0) =>
           LET per == pulse.sampleRate \div pulse.par.frequency
               high == (per * pulse.par.dutyCycle) \div DutyUnit
               at == IF pobs.before > per THEN 0 ELSE pobs.before
           IN  /\ pobs.at = at
               /\ PulseLast = IF at < high THEN 0 - PulseGain ELSE PulseGain

\* C28 witness: after two disabled calls in a row the first frame of an
\* enabled call is emitted mid-period, at the counter value the last frame
\* before them left.
C28_Witness ==
    /\ pobs.written
    /\ pobs.resumed = 2
    /\ pulse.i = 1
    /\ pobs.before >= 3
    /\ pobs.at = pobs.before
    /\ pulse.c = pobs.at + 1

\* C29 (as claimed): every execute() callback that calls run_for_nanos calls
\* it on an emulator that has not been freed, however the animation-frame
\* callbacks interleave with the ROM-selection handler.
C29_RunsLiveEmulator ==
    app.ran # <<>> => app.ran[1].live

\* the packed revision's fields after n more frames under snapshot p
RECURSIVE AfterP(_, _, _, _)
AfterP(n, currentSample, lfsr, p) ==
    IF n = 0 THEN [currentSample |-> currentSample, lfsr |-> lfsr]
    ELSE LET f == FrameP(currentSample, lfsr, p)
         IN  AfterP(n - 1, f.currentSample, f.lfsr, p)

\* the array revision's fields after n more frames under snapshot p
RECURSIVE AfterA(_, _, _, _)
AfterA(n, currentSample, lfsr, p) ==
    IF n = 0 THEN [currentSample |-> currentSample, lfsr |-> lfsr]
    ELSE LET f == FrameA(currentSample, lfsr, p)
         IN  AfterA(n - 1, f.currentSample, f.lfsr, p)

\* the wavetable generator's fields after n more frames under snapshot p
RECURSIVE AfterW(_, _, _, _)
AfterW(n, currentSample, step, p) ==
    IF n = 0 THEN [currentSample |-> currentSample, step |-> step]
    ELSE LET f == FrameW(currentSample, step, p)
         IN  AfterW(n - 1, f.currentSample, f.step, p)

\* C30 (as claimed): when an enabled call over F frames returns, every
\* channel of outputs[0] holds the same F samples, whatever the number of
\* channels; and the generator has moved by F frames: after the first call
\* the phase counter, step index and shift register are those F frames
\* after the constructed state.
C30_AdvancesByBlock ==
    (pc = "done" /\ par.trigger > Half) =>
        /\ \A g \in DOMAIN out : \A c \in 1..par.chans : out[g][c] = out[g][1]
        /\ blocks = 1 =>
              IF rev = {}
              THEN LET a == AfterW(CallFrames, 0, 0, par)
                   IN  /\ currentSampleW = a.currentSample
                       /\ currentWaveformSample = a.step
              ELSE LET a == AfterP(CallFrames, 0, 0, par)
                       b == AfterA(CallFrames, 0, ZeroArr, par)
                   IN  /\ currentSampleP = a.currentSample
                       /\ lfsrP = a.lfsr
                       /\ currentSampleA = b.currentSample
                       /\ lfsrA = b.lfsr

\* the register with every bit 1: 16 bits in the packed revision, 15
\* entries in the array revision
OnesP == 2 ^ (HighBitP + 1) - 1
OnesA == [k \in 1..RegLen |-> TRUE]

\* C31 (as claimed): from the register as constructed, no sequence of ticks,
\* long or short in any order, reaches the register with every bit 1, from
\* which every further tick feeds back 1 and the output stays at -gain.
C31_NoLockUp ==
    /\ "packed" \in rev => lfsrP # OnesP
    /\ "array" \in rev => lfsrA # OnesA

\* the frames the enabled calls after the disabled call have rendered so far
RestartFrames == (blocks - 3) * BlockFrames + last[2]

\* C32 (as claimed): in the array revision, after a call of any parameters
\* and a disabled call, every frame of the enabled calls that follow is the
\* sample a freshly constructed generator writes to that frame under the
\* same parameters.
C32_CleanRestart ==
    (blocks >= 3 /\ FrameWritten /\ RestartFrames <= twin.n) =>
        out["array"][1][last[2]] = twin.outA[RestartFrames]

\* C33: a frame of a call ticks a revision exactly when it does not simply
\* add 1 to that revision's counter; every such tick is the tick of the mode
\* the call's width snapshot selects - packed: short iff width < 0.5,
\* array: short iff width > 0.5 - so at width = 0.5 both tick long; the
\* snapshot does not change during the call.
C33_ModeByWidth ==
    [][(pc = "loop" /\ last' # last) =>
          /\ par' = par
          /\ currentSampleP' # currentSampleP + 1 =>
                /\ lfsrP' = doTickP(lfsrP, par.width < Half)
                /\ par.width = Half => lfsrP' = doTickP(lfsrP, FALSE)
          /\ currentSampleA' # currentSampleA + 1 =>
                /\ lfsrA' = doTickA(lfsrA, par.width > Half)
                /\ par.width = Half => lfsrA' = doTickA(lfsrA, FALSE)]_vars

\* C33 witness: in a call at width = 0.5 the last frame ticked both
\* revisions from the constructed register, and both ticked long: the
\* feedback 1 went to the top of the register and not to the tap.
C33_Witness ==
    /\ rev = Revs
    /\ FrameWritten
    /\ par.width = Half
    /\ cad["packed"].since = 0 /\ cad["array"].since = 0
    /\ currentSampleP = 1 /\ currentSampleA = 1
    /\ lfsrP = 2 ^ HighBitP
    /\ lfsrA[RegLen] /\ ~lfsrA[TapIdxA + 1]

\* the data words with everything above their low 16 bits cleared
LowHalves(words) == [k \in DOMAIN words |-> words[k] % 65536]

\* C34: getSample returns for the data words what it returns for the words
\* that keep only their low 16 bits, at every index; two sets of words that
\* agree in their low 16 bits therefore give the same sample at every step
\* index, and with it on every frame.
C34_LowHalfOnly ==
    unp.done =>
        /\ unp.sample = GetSample(LowHalves(par.words), unp.index)
        /\ unp.nibble = GetNibble(LowHalves(par.words), unp.index)

\* C34 witness: getSample has read a non-zero nibble from the second byte of
\* a word whose upper half is not zero.
C34_Witness ==
    /\ unp.done
    /\ unp.index % 4 < 2
    /\ par.words[unp.index \div 4] >= 65536
    /\ unp.nibble = 5
    /\ unp.sample = 5

\* C35: a disabled call of the wavetable generator - its entry, done at
\* once, and its return - leaves this.currentSample and
\* this.currentWaveformSample as they were, and so does the entry of the
\* enabled call after it: its first frame continues from the step and the
\* phase of the last frame before the disabled call, not from step 0.
C35_DisabledKeepsPhase ==
    [][/\ (pc = "idle" /\ pc' # "idle") =>
             UNCHANGED <<currentSampleW, currentWaveformSample>>
       /\ pc = "done" => UNCHANGED <<currentSampleW, currentWaveformSample>>
       /\ (pc = "loop" /\ last = NoLast /\ last' # NoLast) =>
             /\ currentWaveformSample' \in
                   {currentWaveformSample, (currentWaveformSample + 1) % 32}
             /\ currentSampleW' \in {currentSampleW + 1, 1}]_vars

\* C35 witness: the third call, at frequency 1, has written its first frame
\* and moved the step index from 2 to 3: the first call, at frequency 1 over
\* one channel, left step 2 with the counter at its threshold, and the
\* second was disabled (the run of frames at one frequency was broken, so
\* the step closes no gap).
C35_Witness ==
    /\ rev = {}
    /\ blocks = 3
    /\ pc = "loop"
    /\ last = <<1, 1>>
    /\ par.frequency = 1
    /\ cadW.prev = 2
    /\ currentWaveformSample = 3
    /\ currentSampleW = 1
    /\ cadW.gap = 0


\* C36: in TabPane, whenever no zero-delay timeout is pending, tile-atlas
\* rendering is enabled on the emulator iff TILE_MEMORY is the active tab and
\* object-atlas rendering is enabled iff OBJECT_MEMORY is the active tab (both
\* are disabled when no tab is active)
C36_RenderingFollowsTab ==
    ui.timeouts = <<>> =>
        /\ ui.tile <=> ui.activeTab = "TILE_MEMORY"
        /\ ui.object <=> ui.activeTab = "OBJECT_MEMORY"

\* C37: a click on the Pause/Resume button of ButtonBar leaves is_paused() the
\* negation of what it returned just before the click
C37_ClickInvertsPaused ==
    ui.toggled # <<>> => ui.paused = ~ui.toggled[1]

Spec == SpecLfsr

====
